---- MODULE Spec2Model ----
(***************************************************************************)
(* Model of the organisations / locations HTTP handlers of                 *)
(* app/api/routes/organisations.py over the relational store they share.   *)
(*                                                                         *)
(* State: the two tables of the store, the create-location requests that   *)
(* have read the organisation row and not yet committed (one slot per      *)
(* request worker: handlers are sync "def" endpoints, run concurrently by  *)
(* the framework's thread pool), and the last response sent.               *)
(*                                                                         *)
(* Coordinates are floats in the code.  The model keeps them as integers   *)
(* in tenths of a degree (12.6 -> 126, -65.0 -> -650): the handler only    *)
(* stores and compares them (>=, <=), and on decimal literals with one     *)
(* fractional digit the float order and equality coincide with the order   *)
(* and equality of these integers.                                         *)
(*                                                                         *)
(* The queries carry no ORDER BY, so the order of a returned list is not   *)
(* fixed by the code; rows carry distinct ids, so a list is modelled by    *)
(* the set of its rows.                                                    *)
(***************************************************************************)
EXTENDS Integers, Sequences, FiniteSets, TLC

VARIABLES organisations, locations, pending, resp, returned_orgs, returned_locs

vars == <<organisations, locations, pending, resp, returned_orgs, returned_locs>>

----------------------------------------------------------------------------
(* Bounds of the model *)

MaxOrgs == 2

MaxLocs == 2

Workers == {"w1", "w2"}

OrgNames == {"organisation_a", "organisation_b"}

OrgIds == 1..MaxOrgs

\* request bodies of create_location: the two of test_get_locations_endpoint
Location1 == [location_name |-> "Location 1", longitude |-> -650, latitude |-> 126]

Location2 == [location_name |-> "Location 2", longitude |-> -125, latitude |-> 207]

LocationData == {Location1, Location2}

\* bounding boxes (min_latitude, max_latitude, min_longitude, max_longitude)
TestBox == <<126, 207, -650, -125>>

NarrowBox == <<126, 207, -650, -500>>

UpperBox == <<130, 207, -650, -125>>

PointBox == <<126, 126, -650, -650>>

InvertedBox == <<207, 126, -125, -650>>

Boxes == {TestBox, NarrowBox, UpperBox, PointBox, InvertedBox}

\* bounding_box query parameter: None (the default) is the empty tuple
None == <<>>

BoundingBoxes == Boxes \cup {None}

----------------------------------------------------------------------------
(* Status codes and messages *)

HTTP_200_OK == 200

HTTP_404_NOT_FOUND == 404

HTTP_500_INTERNAL_SERVER_ERROR == 500

OrganisationNotFound == "Organisation not found"

Digit(d) ==
    CASE d = 0 -> "0" [] d = 1 -> "1" [] d = 2 -> "2" [] d = 3 -> "3"
      [] d = 4 -> "4" [] d = 5 -> "5" [] d = 6 -> "6" [] d = 7 -> "7"
      [] d = 8 -> "8" [] d = 9 -> "9"

RECURSIVE IntToStr(_)
\* str() of a non-negative int, as the f-string formats {organisation_id}
IntToStr(n) ==
    IF n < 10 THEN Digit(n) ELSE IntToStr(n \div 10) \o Digit(n % 10)

NoLocationsDetail(organisation_id) ==
    "No locations found for organisation with ID " \o IntToStr(organisation_id)
        \o " with the given bounding box"

----------------------------------------------------------------------------
(* The store session *)

Max(S) == CHOOSE x \in S : \A y \in S : y <= x

\* the primary key the store generates on insert, read back by session.refresh
NextId(rows) == IF rows = {} THEN 1 ELSE Max({r.id : r \in rows}) + 1

\* session.get(Model, id): the rows with that primary key (none: the code's None)
SessionGet(rows, id) == {r \in rows : r.id = id}

\* faulty variant of SelectOrganisations: .first() in place of .all()
SelectOrganisations_first(rows) ==
    IF rows = {} THEN {} ELSE {CHOOSE r \in rows : \A q \in rows : r.id <= q.id}

\* select(Organisation)
SelectOrganisations(rows) == rows

\* truthiness of the bounding_box parameter: None and the empty tuple are falsy
Truthy(bounding_box) == Len(bounding_box) > 0

\* faulty variant of InBox: the upper bounds taken exclusive
InBox_exclusive(l, bounding_box) ==
    /\ l.latitude >= bounding_box[1]
    /\ l.latitude < bounding_box[2]
    /\ l.longitude >= bounding_box[3]
    /\ l.longitude < bounding_box[4]

InBox(l, bounding_box) ==
    LET min_lat  == bounding_box[1]
        max_lat  == bounding_box[2]
        min_long == bounding_box[3]
        max_long == bounding_box[4]
    IN  /\ l.latitude >= min_lat
        /\ l.latitude <= max_lat
        /\ l.longitude >= min_long
        /\ l.longitude <= max_long

\* the query of get_organisation_locations
SelectLocations(rows, organisation_id, bounding_box) ==
    LET qry == {l \in rows : l.organisation_id = organisation_id}
    IN  IF Truthy(bounding_box)
        THEN {l \in qry : InBox(l, bounding_box)}
        ELSE qry

----------------------------------------------------------------------------
(* Responses *)

NoData == [location_name |-> "", longitude |-> 0, latitude |-> 0]

Response(op, organisation_id, bounding_box, data, status, detail, body) ==
    [op |-> op, organisation_id |-> organisation_id, bounding_box |-> bounding_box,
     data |-> data, status |-> status, detail |-> detail, body |-> body]

Idle == [organisation_id |-> 0, data |-> NoData]

Init ==
    /\ organisations = {}
    /\ locations = {}
    /\ pending = [w \in Workers |-> Idle]
    /\ resp = Response("none", 0, None, NoData, 0, "", {})
    /\ returned_orgs = {}
    /\ returned_locs = {}

----------------------------------------------------------------------------
(* Handlers *)

\* faulty variant of create_organisation: an upsert keyed by name, replacing the old row
create_organisation_upsert(name) ==
    /\ Cardinality(organisations) < MaxOrgs
    /\ LET organisation == [id |-> NextId(organisations), name |-> name]
       IN  /\ organisations' =
                {o \in organisations : o.name # name} \cup {organisation}
           /\ resp' = Response("create_organisation", 0, None, NoData,
                               HTTP_200_OK, "", {organisation})
           /\ returned_orgs' = returned_orgs \cup {organisation}
    /\ UNCHANGED <<locations, pending, returned_locs>>

create_organisation(name) ==
    /\ Cardinality(organisations) < MaxOrgs
    /\ LET organisation == [id |-> NextId(organisations), name |-> name]
       IN  /\ organisations' = organisations \cup {organisation}
           /\ resp' = Response("create_organisation", 0, None, NoData,
                               HTTP_200_OK, "", {organisation})
           /\ returned_orgs' = returned_orgs \cup {organisation}
    /\ UNCHANGED <<locations, pending, returned_locs>>

get_organisations ==
    /\ resp' = Response("get_organisations", 0, None, NoData, HTTP_200_OK, "",
                        SelectOrganisations(organisations))
    /\ UNCHANGED <<organisations, locations, pending, returned_orgs, returned_locs>>

\* faulty variant of get_organisation: the None test dropped, the lookup returned as is
get_organisation_unchecked(organisation_id) ==
    /\ resp' = Response("get_organisation", organisation_id, None, NoData,
                        HTTP_200_OK, "", SessionGet(organisations, organisation_id))
    /\ UNCHANGED <<organisations, locations, pending, returned_orgs, returned_locs>>

get_organisation(organisation_id) ==
    /\ LET organisation == SessionGet(organisations, organisation_id)
       IN  IF organisation = {}
           THEN resp' = Response("get_organisation", organisation_id, None, NoData,
                                 HTTP_404_NOT_FOUND, OrganisationNotFound, {})
           ELSE resp' = Response("get_organisation", organisation_id, None, NoData,
                                 HTTP_200_OK, "", organisation)
    /\ UNCHANGED <<organisations, locations, pending, returned_orgs, returned_locs>>

\* POST /create/locations: raise NotImplementedError
create_location_unimplemented ==
    /\ resp' = Response("create_location_unimplemented", 0, None, NoData,
                        HTTP_500_INTERNAL_SERVER_ERROR, "", {})
    /\ UNCHANGED <<organisations, locations, pending, returned_orgs, returned_locs>>

\* faulty variant of get_organisation_locations: 404 only when the organisation is absent
get_organisation_locations_by_org(organisation_id, bounding_box) ==
    /\ LET found == SelectLocations(locations, organisation_id, bounding_box)
       IN  IF SessionGet(organisations, organisation_id) = {}
           THEN resp' = Response("get_organisation_locations", organisation_id,
                                 bounding_box, NoData, HTTP_404_NOT_FOUND,
                                 OrganisationNotFound, {})
           ELSE resp' = Response("get_organisation_locations", organisation_id,
                                 bounding_box, NoData, HTTP_200_OK, "", found)
    /\ UNCHANGED <<organisations, locations, pending, returned_orgs, returned_locs>>

get_organisation_locations(organisation_id, bounding_box) ==
    /\ LET found == SelectLocations(locations, organisation_id, bounding_box)
       IN  IF found = {}
           THEN resp' = Response("get_organisation_locations", organisation_id,
                                 bounding_box, NoData, HTTP_404_NOT_FOUND,
                                 NoLocationsDetail(organisation_id), {})
           ELSE resp' = Response("get_organisation_locations", organisation_id,
                                 bounding_box, NoData, HTTP_200_OK, "", found)
    /\ UNCHANGED <<organisations, locations, pending, returned_orgs, returned_locs>>

InFlight == {w \in Workers : pending[w] # Idle}

\* faulty variant of create_location_get: the existence check left out
create_location_get_unchecked(w, organisation_id, location_data) ==
    /\ pending[w] = Idle
    /\ Cardinality(locations) + Cardinality(InFlight) < MaxLocs
    /\ pending' = [pending EXCEPT ![w] =
                     [organisation_id |-> organisation_id, data |-> location_data]]
    /\ UNCHANGED <<organisations, locations, resp, returned_orgs, returned_locs>>

\* faulty variant of create_location_get: the row added and committed before the check
create_location_get_add_first(w, organisation_id, location_data) ==
    /\ pending[w] = Idle
    /\ Cardinality(locations) + Cardinality(InFlight) < MaxLocs
    /\ LET organisation == SessionGet(organisations, organisation_id)
           location == [id |-> NextId(locations),
                        organisation_id |-> organisation_id,
                        location_name |-> location_data.location_name,
                        longitude |-> location_data.longitude,
                        latitude |-> location_data.latitude]
       IN  /\ locations' = locations \cup {location}
           /\ IF organisation = {}
              THEN /\ resp' = Response("create_location", organisation_id, None,
                                       location_data, HTTP_404_NOT_FOUND,
                                       OrganisationNotFound, {})
                   /\ UNCHANGED returned_locs
              ELSE /\ resp' = Response("create_location", organisation_id, None,
                                       location_data, HTTP_200_OK, "", {location})
                   /\ returned_locs' = returned_locs \cup {location}
    /\ UNCHANGED <<organisations, pending, returned_orgs>>

\* create_location, first statement: the existence check
create_location_get(w, organisation_id, location_data) ==
    /\ pending[w] = Idle
    /\ LET organisation == SessionGet(organisations, organisation_id)
       IN  IF organisation = {}
           THEN /\ resp' = Response("create_location", organisation_id, None,
                                    location_data, HTTP_404_NOT_FOUND,
                                    OrganisationNotFound, {})
                /\ UNCHANGED pending
           ELSE /\ Cardinality(locations) + Cardinality(InFlight) < MaxLocs
                /\ pending' = [pending EXCEPT ![w] =
                                 [organisation_id |-> organisation_id,
                                  data |-> location_data]]
                /\ UNCHANGED resp
    /\ UNCHANGED <<organisations, locations, returned_orgs, returned_locs>>

\* faulty variant of create_location_commit: longitude and latitude exchanged
create_location_commit_swapped(w) ==
    /\ pending[w] # Idle
    /\ LET location_data == pending[w].data
           location == [id |-> NextId(locations),
                        organisation_id |-> pending[w].organisation_id,
                        location_name |-> location_data.location_name,
                        longitude |-> location_data.latitude,
                        latitude |-> location_data.longitude]
       IN  /\ locations' = locations \cup {location}
           /\ resp' = Response("create_location", pending[w].organisation_id, None,
                               location_data, HTTP_200_OK, "", {location})
           /\ returned_locs' = returned_locs \cup {location}
    /\ pending' = [pending EXCEPT ![w] = Idle]
    /\ UNCHANGED <<organisations, returned_orgs>>

\* create_location, the rest: build the row, add, commit, refresh, return
create_location_commit(w) ==
    /\ pending[w] # Idle
    /\ LET location_data == pending[w].data
           location == [id |-> NextId(locations),
                        organisation_id |-> pending[w].organisation_id,
                        location_name |-> location_data.location_name,
                        longitude |-> location_data.longitude,
                        latitude |-> location_data.latitude]
       IN  /\ locations' = locations \cup {location}
           /\ resp' = Response("create_location", pending[w].organisation_id, None,
                               location_data, HTTP_200_OK, "", {location})
           /\ returned_locs' = returned_locs \cup {location}
    /\ pending' = [pending EXCEPT ![w] = Idle]
    /\ UNCHANGED <<organisations, returned_orgs>>

Next ==
    \/ \E name \in OrgNames : create_organisation(name)
    \/ get_organisations
    \/ \E id \in OrgIds : get_organisation(id)
    \/ create_location_unimplemented
    \/ \E id \in OrgIds, bb \in BoundingBoxes : get_organisation_locations(id, bb)
    \/ \E w \in Workers, id \in OrgIds, d \in LocationData : create_location_get(w, id, d)
    \/ \E w \in Workers : create_location_commit(w)

Spec == Init /\ [][Next]_vars

----------------------------------------------------------------------------
(* Properties.  resp is the last response sent; every step that changes     *)
(* the store also sends a response, so resp is always read against the      *)
(* store as that response's handler left it.                                *)

IsList == resp.op = "get_organisation_locations"

\* the rows a list-locations request asks for, stated from the request alone
Expected(organisation_id, bounding_box) ==
    {l \in locations :
        /\ l.organisation_id = organisation_id
        /\ bounding_box # None =>
              /\ bounding_box[1] <= l.latitude /\ l.latitude <= bounding_box[2]
              /\ bounding_box[3] <= l.longitude /\ l.longitude <= bounding_box[4]}

DataOf(l) ==
    [location_name |-> l.location_name, longitude |-> l.longitude,
     latitude |-> l.latitude]

\* C1: after create-organisation requests (all answered 200), a
\* list-organisations response has status 200 and the set of names in it is
\* exactly the set of names created; with distinct names it has one row each.
C1_ListReturnsCreatedNames ==
    resp.op = "get_organisations" =>
        /\ resp.status = 200
        /\ {o.name : o \in resp.body} = {o.name : o \in returned_orgs}
        /\ Cardinality(resp.body) = Cardinality(returned_orgs)

C1_Witness ==
    /\ resp.op = "get_organisations"
    /\ Cardinality(returned_orgs) = MaxOrgs
    /\ Cardinality({o.name : o \in returned_orgs}) >= 2

C3_TestBoxReturnsOnlyLocation1 ==
    (/\ IsList /\ resp.bounding_box = TestBox
     /\ Cardinality(locations) = 2
     /\ \A l \in locations : l.organisation_id = resp.organisation_id
     /\ {DataOf(l) : l \in locations} = {Location1, Location2}) =>
        /\ resp.status = 200
        /\ Cardinality(resp.body) = 1
        /\ \A l \in resp.body : l.location_name = "Location 1"

\* C4 (step): a create-location response for an existing organisation has
\* status 200, and the location table changes only by such a response, which
\* adds exactly one new row carrying the path's organisation id and the body's
\* location_name, longitude and latitude.
C4_Step ==
    /\ (/\ resp'.op = "create_location"
        /\ \E o \in organisations' : o.id = resp'.organisation_id) =>
            resp'.status = 200
    /\ (resp'.op = "create_location" /\ resp'.status = 200 /\ resp' # resp) =>
            locations' # locations
    /\ locations' # locations =>
        /\ resp'.op = "create_location"
        /\ resp'.status = 200
        /\ \E o \in organisations : o.id = resp'.organisation_id
        /\ \E l \in resp'.body :
              /\ resp'.body = {l}
              /\ \A m \in locations : m.id # l.id
              /\ locations' = locations \cup {l}
              /\ l.organisation_id = resp'.organisation_id
              /\ DataOf(l) = resp'.data

\* C4 (listing): a list without a bounding box holds every location a
\* create-location response returned for that organisation.
C4_Listed ==
    (IsList /\ resp.bounding_box = None) =>
        /\ {l \in returned_locs : l.organisation_id = resp.organisation_id}
              \subseteq resp.body
        /\ (\E l \in returned_locs : l.organisation_id = resp.organisation_id)
              => resp.status = 200

\* C4: create-location for an existing organisation returns 200 and persists
\* exactly one new location with the path's organisation id and the body's
\* fields, and that location is in every later list without a bounding box.
C4_CreateLocationPersists == [][C4_Step]_vars /\ []C4_Listed

C4_Witness ==
    /\ IsList /\ resp.bounding_box = None /\ resp.status = 200
    /\ Cardinality(resp.body) = 2
    /\ resp.body = returned_locs

\* C5: a create-location response for an organisation id that matches no
\* stored organisation is 404 "Organisation not found", and the step that
\* sends it leaves both tables as they were.
C5_Step ==
    (/\ resp'.op = "create_location"
     /\ ~ \E o \in organisations' : o.id = resp'.organisation_id) =>
        /\ resp'.status = 404
        /\ resp'.detail = "Organisation not found"
        /\ resp'.body = {}
        /\ organisations' = organisations
        /\ locations' = locations

\* C5: every step of every behaviour satisfies C5_Step: 404 with detail
\* "Organisation not found" for an unknown organisation id, and no insert.
C5_CreateLocationNotFound == [][C5_Step]_vars

C5_Witness ==
    /\ resp.op = "create_location" /\ resp.status = 404
    /\ resp.organisation_id = 2
    /\ organisations # {}
    /\ locations # {}

\* C6: in every reachable state, under any interleaving of the requests, every
\* stored location's organisation_id is the id of a stored organisation.
C6_LocationsReferToOrganisations ==
    \A l \in locations : \E o \in organisations : o.id = l.organisation_id

\* a location is stored, and an organisation was created while another
\* create-location request stood between its check and its commit
C6_Witness ==
    /\ locations # {}
    /\ \E w \in Workers : pending[w] # Idle /\ pending[w].organisation_id = 1
    /\ resp.op = "create_organisation"
    /\ \E o \in resp.body : o.id = 2

\* C7: a list-locations response is 404 whenever the requested set is empty,
\* with the same status and detail whether or not the organisation exists, and
\* is never 200 with an empty list.
C7_EmptyListIs404 ==
    IsList =>
        /\ Expected(resp.organisation_id, resp.bounding_box) = {} =>
              /\ resp.status = 404
              /\ resp.detail = "No locations found for organisation with ID "
                                  \o IntToStr(resp.organisation_id)
                                  \o " with the given bounding box"
        /\ resp.status = 200 => resp.body # {}
        /\ resp.status \in {200, 404}

C7_Witness ==
    /\ IsList /\ resp.status = 404
    /\ \E o \in organisations : o.id = resp.organisation_id
    /\ \E l \in locations : l.organisation_id = resp.organisation_id
    /\ \E o \in organisations : o.id # resp.organisation_id

\* C8: a list without a bounding box for an organisation id N with no stored
\* location returns 404 with detail exactly
\* "Locations found for organisation with ID N".
C8_NotFoundDetail ==
    (/\ IsList /\ resp.bounding_box = None
     /\ ~ \E l \in locations : l.organisation_id = resp.organisation_id) =>
        /\ resp.status = 404
        /\ resp.detail = "Locations found for organisation with ID "
                            \o IntToStr(resp.organisation_id)

\* C9: a get-organisation response is 404 "Organisation not found" exactly
\* when no create-organisation response returned that id; for an id one
\* returned, it is 200 with that id and the name given at creation.
C9_GetOrganisation ==
    resp.op = "get_organisation" =>
        LET made == {r \in returned_orgs : r.id = resp.organisation_id}
        IN  /\ (resp.status = 404 /\ resp.detail = "Organisation not found")
                  <=> made = {}
            /\ made # {} => (resp.status = 200 /\ resp.body = made)
            /\ Cardinality(made) <= 1

C9_Witness ==
    /\ resp.op = "get_organisation" /\ resp.status = 200
    /\ resp.organisation_id = 2
    /\ \E r \in resp.body : r.id = 2 /\ r.name = "organisation_a"

\* C10: no stored row is ever updated or deleted, and a step that answers a
\* read endpoint, answers 404, or answers the unimplemented endpoint leaves
\* both tables as they were.
C10_Step ==
    /\ organisations \subseteq organisations'
    /\ locations \subseteq locations'
    /\ \A o \in organisations' \ organisations : \A p \in organisations : p.id # o.id
    /\ \A l \in locations' \ locations : \A m \in locations : m.id # l.id
    /\ (\/ resp'.op \in {"get_organisations", "get_organisation",
                         "get_organisation_locations",
                         "create_location_unimplemented"}
        \/ resp'.status = 404) =>
            (organisations' = organisations /\ locations' = locations)

\* C10: every step of every behaviour satisfies C10_Step: rows are only ever
\* added, and reads, 404 answers and the unimplemented endpoint add none.
C10_StoreOnlyGrows == [][C10_Step]_vars

C10_Witness ==
    /\ resp.op = "create_location_unimplemented"
    /\ Cardinality(organisations) = MaxOrgs
    /\ Cardinality(locations) = MaxLocs

====
